---------------------------- MODULE Spec2Model ----------------------------
(***************************************************************************)
(* Shape-level model of resnet/resnet.py: the ResNet graph builder.        *)
(* A tensor is represented by its _keras_shape without the batch entry:    *)
(* a 3-tuple s where s[k] is _keras_shape[k] for k in 1..3, so that the    *)
(* module's ROW_AXIS / COL_AXIS / CHANNEL_AXIS index it directly.          *)
(* Layers are modelled by the output shape the framework infers for them.  *)
(***************************************************************************)
EXTENDS Integers, Sequences, FiniteSets, TLC

(* ------------------------------ bounds -------------------------------- *)
MaxDim == 12        \* rows / cols of generated input shapes range over 1..MaxDim
MaxStages == 2      \* longest repetitions list passed to build directly
MaxReps == 2        \* largest repetition count in such a list
MaxOutputs == 2     \* num_outputs ranges over 1..MaxOutputs (and 1000)
MaxScDim == 4       \* rows / cols of tensors handed to _shortcut directly

(* ------------------------- program constants -------------------------- *)
InitialFilters == 64
ImageSize == 224
ImageChannels == 3
MainOutputs == 1000

VARIABLES
    dim_ordering,   \* K.image_dim_ordering(): "tf" or "th"
    pc,             \* position of the running call
    args,           \* arguments of ResNetBuilder.build and the entry point used
    i,              \* build: index of the stage being assembled
    j,              \* _residual_block: index of the next repetition
    nb_filters,     \* build: filter count of the current stage
    block,          \* build: shape of the tensor `block`
    conv1, pool1,   \* build: shapes of the stem tensors
    pool2, flatten1,\* build: shapes of the classifier pooling / flatten
    dense,          \* build: the classifier head, or None
    model,          \* TRUE once Model(input, output) has been created
    exc,            \* the exception that ended the call, or "none"
    blocks,         \* log: one entry per block function application
    stageOut,       \* log: tensor shape leaving each completed stage
    nconv,          \* number of main-path convolutions constructed
    nproj,          \* number of projection (shortcut) convolutions constructed
    plotted,        \* file name handed to plot_model_cwd, or ""
    sc_input, sc_residual,  \* arguments of the latest _shortcut call
    sc              \* result of the latest _shortcut call

vars == <<dim_ordering, pc, args, i, j, nb_filters, block, conv1, pool1, pool2,
          flatten1, dense, model, exc, blocks, stageOut, nconv, nproj, plotted,
          sc_input, sc_residual, sc>>

NoTensor == <<>>
None == [units |-> 0, activation |-> "none"]
NoCall == [projection |-> FALSE, stride_width |-> 0, stride_height |-> 0,
           shortcut |-> NoTensor, out |-> NoTensor, exc |-> "none"]
NoArgs == [entry |-> "none", input_shape |-> <<>>, num_outputs |-> 0,
           block_fn |-> "none", repetitions |-> <<>>, mode |-> "none"]

(* ------------------------ module level axes --------------------------- *)
ROW_AXIS == IF dim_ordering = "tf" THEN 1 ELSE 2
COL_AXIS == IF dim_ordering = "tf" THEN 2 ELSE 3
CHANNEL_AXIS == IF dim_ordering = "tf" THEN 3 ELSE 1

\* A shape with the given rows, cols and channels under the current ordering.
TensorShape(rows, cols, ch) ==
    [k \in 1..3 |-> IF k = ROW_AXIS THEN rows
                    ELSE IF k = COL_AXIS THEN cols ELSE ch]

INPUT_SHAPE == TensorShape(ImageSize, ImageSize, ImageChannels)

(* --------------------- framework shape inference ---------------------- *)
\* keras conv_output_length for border modes "same" and "valid", stride >= 1
conv_output_length(input_length, filter_size, border_mode, stride) ==
    LET output_length == IF border_mode = "same" THEN input_length
                         ELSE input_length - filter_size + 1
    IN (output_length + stride - 1) \div stride

Convolution2D(nb_filter, nb_row, nb_col, subsample, border_mode, input) ==
    TensorShape(
        conv_output_length(input[ROW_AXIS], nb_row, border_mode, subsample[1]),
        conv_output_length(input[COL_AXIS], nb_col, border_mode, subsample[2]),
        nb_filter)

MaxPooling2D(pool_size, strides, border_mode, input) ==
    TensorShape(
        conv_output_length(input[ROW_AXIS], pool_size[1], border_mode, strides[1]),
        conv_output_length(input[COL_AXIS], pool_size[2], border_mode, strides[2]),
        input[CHANNEL_AXIS])

AveragePooling2D(pool_size, strides, input) ==
    TensorShape(
        conv_output_length(input[ROW_AXIS], pool_size[1], "valid", strides[1]),
        conv_output_length(input[COL_AXIS], pool_size[2], "valid", strides[2]),
        input[CHANNEL_AXIS])

Flatten(input) == input[1] * input[2] * input[3]

Dense(output_dim, activation) == [units |-> output_dim, activation |-> activation]

(* --------------------------- block primitives ------------------------- *)
\* conv -> BN -> relu: BN and relu keep the shape
_conv_bn_relu(nb_filter, nb_row, nb_col, subsample, input) ==
    Convolution2D(nb_filter, nb_row, nb_col, subsample, "same", input)

\* BN -> relu -> conv
_bn_relu_conv(nb_filter, nb_row, nb_col, subsample, input) ==
    Convolution2D(nb_filter, nb_row, nb_col, subsample, "same", input)

(* ------------------------------ _shortcut ----------------------------- *)
\* merge([shortcut, residual], mode="sum"): only equal shapes can be summed
merge(shortcut, residual, r) ==
    IF shortcut = residual
    THEN [r EXCEPT !.shortcut = shortcut, !.out = residual]
    ELSE [r EXCEPT !.shortcut = shortcut, !.exc = "merge"]

_shortcut(input, residual) ==
    LET stride_width == input[ROW_AXIS] \div residual[ROW_AXIS]
        stride_height == input[COL_AXIS] \div residual[COL_AXIS]
        equal_channels == residual[CHANNEL_AXIS] = input[CHANNEL_AXIS]
        r == [NoCall EXCEPT !.stride_width = stride_width,
                            !.stride_height = stride_height]
    IN IF stride_width > 1 \/ stride_height > 1 \/ ~equal_channels
       THEN IF stride_width = 0 \/ stride_height = 0
            THEN \* a zero stride makes the projection's shape inference divide by zero
                 [r EXCEPT !.projection = TRUE, !.exc = "ZeroDivisionError"]
            ELSE merge(Convolution2D(residual[CHANNEL_AXIS], 1, 1,
                                     <<stride_width, stride_height>>, "valid", input),
                       residual, [r EXCEPT !.projection = TRUE])
       ELSE merge(input, residual, r)

(* --------------------------- block functions -------------------------- *)
basic_block(nb_filters_, init_subsample, input) ==
    LET c1 == _bn_relu_conv(nb_filters_, 3, 3, init_subsample, input)
        residual == _bn_relu_conv(nb_filters_, 3, 3, <<1, 1>>, c1)
    IN [residual |-> residual, convs |-> 2, sc |-> _shortcut(input, residual)]

\* variant: the last convolution widens by 2 instead of 4
bottleneck_x2(nb_filters_, init_subsample, input) ==
    LET conv_1_1 == _bn_relu_conv(nb_filters_, 1, 1, init_subsample, input)
        conv_3_3 == _bn_relu_conv(nb_filters_, 3, 3, <<1, 1>>, conv_1_1)
        residual == _bn_relu_conv(nb_filters_ * 2, 1, 1, <<1, 1>>, conv_3_3)
    IN [residual |-> residual, convs |-> 3, sc |-> _shortcut(input, residual)]

bottleneck(nb_filters_, init_subsample, input) ==
    LET conv_1_1 == _bn_relu_conv(nb_filters_, 1, 1, init_subsample, input)
        conv_3_3 == _bn_relu_conv(nb_filters_, 3, 3, <<1, 1>>, conv_1_1)
        residual == _bn_relu_conv(nb_filters_ * 4, 1, 1, <<1, 1>>, conv_3_3)
    IN [residual |-> residual, convs |-> 3, sc |-> _shortcut(input, residual)]

block_function(fn, nb_filters_, init_subsample, input) ==
    IF fn = "basic_block" THEN basic_block(nb_filters_, init_subsample, input)
    ELSE bottleneck(nb_filters_, init_subsample, input)

\* variant: every repetition of a later stage is strided
InitSubsample_every(rep, is_first_layer) ==
    IF ~is_first_layer THEN <<2, 2>> ELSE <<1, 1>>

\* _residual_block: the stride of repetition rep of a stage
InitSubsample(rep, is_first_layer) ==
    IF rep = 0 /\ ~is_first_layer THEN <<2, 2>> ELSE <<1, 1>>

\* variant: the filter count grows by 64 per stage instead of doubling
NextNbFilters_add(nb) == nb + 64

\* build: filter count of the stage after one with nb filters
NextNbFilters(nb) == nb * 2

\* variant: the check accepts shapes longer than 3
InputShapeOk_atleast(input_shape) == Len(input_shape) >= 3

\* build: the len(input_shape) check
InputShapeOk(input_shape) == Len(input_shape) = 3

\* variant: the binary head takes its width from num_outputs
ClassifierHead_units(mode, num_outputs) ==
    IF mode = "categorical" THEN Dense(num_outputs, "softmax")
    ELSE IF mode = "binary" THEN Dense(num_outputs, "sigmoid")
    ELSE None

\* build: the classifier head for a mode, None when the mode is rejected
ClassifierHead(mode, num_outputs) ==
    IF mode = "categorical" THEN Dense(num_outputs, "softmax")
    ELSE IF mode = "binary" THEN Dense(1, "sigmoid")
    ELSE None

(* ------------------------------ inputs -------------------------------- *)
Dims == (1..MaxDim) \cup {ImageSize}
InputShapes ==
    {TensorShape(r, c, ImageChannels) : r \in Dims, c \in Dims}
    \cup {<<ImageChannels, ImageSize, ImageSize>>}          \* the tuple main() passes
    \cup {<<ImageSize, ImageSize>>, <<1, ImageChannels, ImageSize, ImageSize>>}
NumOutputs == (1..MaxOutputs) \cup {MainOutputs}
BlockFns == {"basic_block", "bottleneck"}
Modes == {"categorical", "binary", "regression"}
RepetitionLists == UNION {[1..n -> 0..MaxReps] : n \in 0..MaxStages}
ScDims == 1..MaxScDim
ScChannels == {InitialFilters, 2 * InitialFilters}
ScShapes == {TensorShape(r, c, ch) : r \in ScDims, c \in ScDims, ch \in ScChannels}

(* ------------------------------- Init --------------------------------- *)
Blank ==
    /\ args = NoArgs /\ i = 0 /\ j = 0 /\ nb_filters = 0
    /\ block = NoTensor /\ conv1 = NoTensor /\ pool1 = NoTensor
    /\ pool2 = NoTensor /\ flatten1 = 0 /\ dense = None /\ model = FALSE
    /\ exc = "none" /\ blocks = <<>> /\ stageOut = <<>>
    /\ nconv = 0 /\ nproj = 0 /\ plotted = ""
    /\ sc = NoCall

Init ==
    /\ dim_ordering \in {"tf", "th"}
    /\ pc = "idle"
    /\ Blank
    /\ sc_input = NoTensor /\ sc_residual = NoTensor

(* --------------------------- entry points ----------------------------- *)
Enter(entry, input_shape, num_outputs, block_fn, repetitions, mode) ==
    /\ args' = [entry |-> entry, input_shape |-> input_shape,
                num_outputs |-> num_outputs, block_fn |-> block_fn,
                repetitions |-> repetitions, mode |-> mode]
    /\ pc' = "check"
    /\ UNCHANGED <<dim_ordering, i, j, nb_filters, block, conv1, pool1, pool2,
                   flatten1, dense, model, exc, blocks, stageOut, nconv, nproj,
                   plotted, sc_input, sc_residual, sc>>

build ==
    /\ pc = "idle"
    /\ \E s \in InputShapes, n \in 1..MaxOutputs, fn \in BlockFns,
         reps \in RepetitionLists, m \in Modes :
          Enter("build", s, n, fn, reps, m)

build_resnet_18 ==
    /\ pc = "idle"
    /\ \E s \in InputShapes, n \in NumOutputs :
          Enter("build_resnet_18", s, n, "basic_block", <<2, 2, 2, 2>>, "categorical")

build_resnet_34 ==
    /\ pc = "idle"
    /\ \E s \in InputShapes, n \in NumOutputs :
          Enter("build_resnet_34", s, n, "basic_block", <<3, 4, 6, 3>>, "categorical")

build_resnet_34_binary ==
    /\ pc = "idle"
    /\ \E s \in InputShapes :
          Enter("build_resnet_34_binary", s, 1, "basic_block", <<3, 4, 6, 3>>, "binary")

build_resnet_50 ==
    /\ pc = "idle"
    /\ \E s \in InputShapes, n \in NumOutputs :
          Enter("build_resnet_50", s, n, "bottleneck", <<3, 4, 6, 3>>, "categorical")

\* variant: the repetition table of ResNet-50 under the name of ResNet-101
build_resnet_101_table50 ==
    /\ pc = "idle"
    /\ \E s \in InputShapes, n \in NumOutputs :
          Enter("build_resnet_101", s, n, "bottleneck", <<3, 4, 6, 3>>, "categorical")

build_resnet_101 ==
    /\ pc = "idle"
    /\ \E s \in InputShapes, n \in NumOutputs :
          Enter("build_resnet_101", s, n, "bottleneck", <<3, 4, 23, 3>>, "categorical")

build_resnet_152 ==
    /\ pc = "idle"
    /\ \E s \in InputShapes, n \in NumOutputs :
          Enter("build_resnet_152", s, n, "bottleneck", <<3, 8, 36, 3>>, "categorical")

(* ------------------------- the body of build -------------------------- *)
\* if len(input_shape) != 3: raise
CheckInputShape ==
    /\ pc = "check"
    /\ IF InputShapeOk(args.input_shape)
       THEN pc' = "stem" /\ exc' = exc
       ELSE pc' = "raised" /\ exc' = "input_shape"
    /\ UNCHANGED <<dim_ordering, args, i, j, nb_filters, block, conv1, pool1,
                   pool2, flatten1, dense, model, blocks, stageOut, nconv,
                   nproj, plotted, sc_input, sc_residual, sc>>

\* input, conv1, pool1; block = pool1; nb_filters = 64
Stem ==
    /\ pc = "stem"
    /\ LET c == _conv_bn_relu(InitialFilters, 7, 7, <<2, 2>>, args.input_shape)
           p == MaxPooling2D(<<3, 3>>, <<2, 2>>, "same", c)
       IN /\ conv1' = c
          /\ pool1' = p
          /\ block' = p
    /\ nb_filters' = InitialFilters
    /\ nconv' = nconv + 1
    /\ i' = 0 /\ j' = 0
    /\ pc' = "stages"
    /\ UNCHANGED <<dim_ordering, args, pool2, flatten1, dense, model, exc,
                   blocks, stageOut, nproj, plotted, sc_input, sc_residual, sc>>

\* one iteration of the loop of _residual_block inside stage i
ResidualBlockStep ==
    /\ pc = "stages"
    /\ i < Len(args.repetitions)
    /\ j < args.repetitions[i + 1]
    /\ LET init_subsample == InitSubsample(j, i = 0)
           b == block_function(args.block_fn, nb_filters, init_subsample, block)
       IN /\ blocks' = Append(blocks, [stage |-> i, rep |-> j,
                                       nb_filters |-> nb_filters,
                                       init_subsample |-> init_subsample])
          /\ nconv' = nconv + b.convs
          /\ nproj' = nproj + (IF b.sc.projection /\ b.sc.exc # "ZeroDivisionError"
                               THEN 1 ELSE 0)
          /\ sc_input' = block
          /\ sc_residual' = b.residual
          /\ sc' = b.sc
          /\ IF b.sc.exc = "none"
             THEN /\ block' = b.sc.out
                  /\ j' = j + 1
                  /\ pc' = pc /\ exc' = exc
             ELSE /\ block' = block
                  /\ j' = j
                  /\ pc' = "raised" /\ exc' = b.sc.exc
    /\ UNCHANGED <<dim_ordering, args, i, nb_filters, conv1, pool1, pool2,
                   flatten1, dense, model, stageOut, plotted>>

\* _residual_block returns; nb_filters *= 2; next stage
StageEnd ==
    /\ pc = "stages"
    /\ i < Len(args.repetitions)
    /\ j = args.repetitions[i + 1]
    /\ stageOut' = Append(stageOut, block)
    /\ nb_filters' = NextNbFilters(nb_filters)
    /\ i' = i + 1
    /\ j' = 0
    /\ UNCHANGED <<dim_ordering, pc, args, block, conv1, pool1, pool2, flatten1,
                   dense, model, exc, blocks, nconv, nproj, plotted,
                   sc_input, sc_residual, sc>>

\* pool2 and flatten1
Classifier ==
    /\ pc = "stages"
    /\ i = Len(args.repetitions)
    /\ LET p == AveragePooling2D(<<block[ROW_AXIS], block[COL_AXIS]>>, <<1, 1>>, block)
       IN /\ pool2' = p
          /\ flatten1' = Flatten(p)
    /\ pc' = "head"
    /\ UNCHANGED <<dim_ordering, args, i, j, nb_filters, block, conv1, pool1,
                   dense, model, exc, blocks, stageOut, nconv, nproj, plotted,
                   sc_input, sc_residual, sc>>

\* the dense layer chosen by mode, or the mode exception
ClassifierBlock ==
    /\ pc = "head"
    /\ LET d == ClassifierHead(args.mode, args.num_outputs)
       IN /\ dense' = d
          /\ IF d = None
             THEN pc' = "raised" /\ exc' = "mode"
             ELSE pc' = "model" /\ exc' = exc
    /\ UNCHANGED <<dim_ordering, args, i, j, nb_filters, block, conv1, pool1,
                   pool2, flatten1, model, blocks, stageOut, nconv, nproj,
                   plotted, sc_input, sc_residual, sc>>

\* model = Model(input=input, output=dense); return model
MakeModel ==
    /\ pc = "model"
    /\ model' = TRUE
    /\ pc' = IF args.entry = "build" THEN "done" ELSE "plot"
    /\ UNCHANGED <<dim_ordering, args, i, j, nb_filters, block, conv1, pool1,
                   pool2, flatten1, dense, exc, blocks, stageOut, nconv, nproj,
                   plotted, sc_input, sc_residual, sc>>

\* file name a named constructor hands to plot_model_cwd
PlotFile(entry) ==
    CASE entry = "build_resnet_18" -> "resnet_18.png"
      [] entry = "build_resnet_34" -> "resnet_34.png"
      [] entry = "build_resnet_34_binary" -> "resnet_34_binary.png"
      [] entry = "build_resnet_50" -> "resnet_50.png"
      [] entry = "build_resnet_101" -> "resnet_101.png"
      [] entry = "build_resnet_152" -> "resnet_152.png"

\* the named constructors: plot_model_cwd(model, visual_path, file); return model
PlotAndReturn ==
    /\ pc = "plot"
    /\ plotted' = PlotFile(args.entry)
    /\ pc' = "done"
    /\ UNCHANGED <<dim_ordering, args, i, j, nb_filters, block, conv1, pool1,
                   pool2, flatten1, dense, model, exc, blocks, stageOut, nconv,
                   nproj, sc_input, sc_residual, sc>>

Next ==
    \/ build
    \/ build_resnet_18
    \/ build_resnet_34
    \/ build_resnet_34_binary
    \/ build_resnet_50
    \/ build_resnet_101
    \/ build_resnet_152
    \/ CheckInputShape
    \/ Stem
    \/ ResidualBlockStep
    \/ StageEnd
    \/ Classifier
    \/ ClassifierBlock
    \/ MakeModel
    \/ PlotAndReturn

Spec == Init /\ [][Next]_vars

(* ------------- _shortcut applied to arbitrary tensor pairs ------------- *)
\* The pairs are those a block function hands to _shortcut: the residual is the
\* input convolved with border mode "same", some stride and some filter count.
ShortcutInit ==
    /\ dim_ordering \in {"tf", "th"}
    /\ pc = "shortcut"
    /\ Blank
    /\ sc_input \in ScShapes
    /\ \E a \in ScDims, b \in ScDims, ch \in ScChannels :
          sc_residual = _bn_relu_conv(ch, 1, 1, <<a, b>>, sc_input)

ShortcutCall ==
    /\ pc = "shortcut"
    /\ sc' = _shortcut(sc_input, sc_residual)
    /\ pc' = "shortcut_done"
    /\ UNCHANGED <<dim_ordering, args, i, j, nb_filters, block, conv1, pool1,
                   pool2, flatten1, dense, model, exc, blocks, stageOut, nconv,
                   nproj, plotted, sc_input, sc_residual>>

ShortcutNext == ShortcutCall

ShortcutSpec == ShortcutInit /\ [][ShortcutNext]_vars

(* ------------------------- auxiliary notions -------------------------- *)
Rows(t) == t[ROW_AXIS]
Cols(t) == t[COL_AXIS]
Channels(t) == t[CHANNEL_AXIS]

CeilHalf(n) == (n + 1) \div 2

RECURSIVE Pow2(_)
Pow2(n) == IF n = 0 THEN 1 ELSE 2 * Pow2(n - 1)

\* number of block function applications logged for stage s (0-based)
Applied(s) == Cardinality({k \in 1..Len(blocks) : blocks[k].stage = s})

\* tensor entering stage s (1-based index into stageOut)
StageIn(s) == IF s = 1 THEN pool1 ELSE stageOut[s - 1]

\* main-path weighted layers: stem and block convolutions plus the dense layer
WeightedLayers == nconv + (IF dense # None THEN 1 ELSE 0)

NamedEntries == {"build_resnet_18", "build_resnet_34", "build_resnet_34_binary",
                 "build_resnet_50", "build_resnet_101", "build_resnet_152"}

\* depth in the name of each constructor
NameDepth(entry) ==
    CASE entry = "build_resnet_18" -> 18
      [] entry = "build_resnet_34" -> 34
      [] entry = "build_resnet_34_binary" -> 34
      [] entry = "build_resnet_50" -> 50
      [] entry = "build_resnet_101" -> 101
      [] entry = "build_resnet_152" -> 152

\* published ResNet stage outputs for a 224 x 224 input
PublishedSize == <<56, 28, 14, 7>>
PublishedChannels(fn) ==
    IF fn = "basic_block" THEN <<64, 128, 256, 512>> ELSE <<256, 512, 1024, 2048>>

Started == pc \notin {"idle", "shortcut", "shortcut_done"}
PastStages == pc \in {"head", "model", "plot", "done"} \/ (pc = "raised" /\ exc = "mode")

(* ------------------------------- claims ------------------------------- *)

\* C1: the block function is applied repetitions[i] times in stage i, stages in
\* list order, and every block of stage i is created with nb_filters = 64 * 2^i.
\* A stage that has been left has exactly repetitions[i] applications; a stage
\* never has more.
C1_StageAssembly ==
    Started =>
      /\ \A k \in 1..Len(blocks) :
            /\ blocks[k].nb_filters = 64 * Pow2(blocks[k].stage)
            /\ k < Len(blocks) => blocks[k].stage <= blocks[k + 1].stage
      /\ \A s \in 0..(Len(args.repetitions) - 1) :
            /\ Applied(s) <= args.repetitions[s + 1]
            /\ s < Len(stageOut) => Applied(s) = args.repetitions[s + 1]
      /\ PastStages => Len(stageOut) = Len(args.repetitions)

C1_Witness ==
    /\ pc = "done"
    /\ args.entry = "build"
    /\ args.repetitions = <<2, 1>>
    /\ Applied(0) = 2 /\ Applied(1) = 1
    /\ blocks[3].nb_filters = 128

\* C2 as stated: every stage i >= 1 halves (rounding up) the rows and cols of
\* the tensor leaving stage i-1, stage 0 leaves them unchanged, and within a
\* stage only the first block is strided.
C2_EveryStageHalves ==
    /\ \A s \in 1..Len(stageOut) :
          IF s = 1
          THEN /\ Rows(stageOut[s]) = Rows(StageIn(s))
               /\ Cols(stageOut[s]) = Cols(StageIn(s))
          ELSE /\ Rows(stageOut[s]) = CeilHalf(Rows(StageIn(s)))
               /\ Cols(stageOut[s]) = CeilHalf(Cols(StageIn(s)))
    /\ \A k \in 1..Len(blocks) :
          blocks[k].init_subsample =
             IF blocks[k].rep = 0 /\ blocks[k].stage > 0 THEN <<2, 2>> ELSE <<1, 1>>

\* C2 amended: every stage i >= 1 with repetitions[i] >= 1 halves (rounding up)
\* the rows and cols of the tensor leaving stage i-1; stage 0 and every stage
\* with repetitions[i] = 0 leave them unchanged; within a stage only the first
\* block is strided.
C2_NonEmptyStageHalves ==
    /\ \A s \in 1..Len(stageOut) :
          IF s = 1 \/ args.repetitions[s] = 0
          THEN /\ Rows(stageOut[s]) = Rows(StageIn(s))
               /\ Cols(stageOut[s]) = Cols(StageIn(s))
          ELSE /\ Rows(stageOut[s]) = CeilHalf(Rows(StageIn(s)))
               /\ Cols(stageOut[s]) = CeilHalf(Cols(StageIn(s)))
    /\ \A k \in 1..Len(blocks) :
          blocks[k].init_subsample =
             IF blocks[k].rep = 0 /\ blocks[k].stage > 0 THEN <<2, 2>> ELSE <<1, 1>>

C2_Witness ==
    /\ Len(stageOut) >= 2
    /\ args.repetitions[2] = 2
    /\ Rows(stageOut[1]) = 56 /\ Rows(stageOut[2]) = 28
    /\ Cols(stageOut[1]) = 2 /\ Cols(stageOut[2]) = 1

\* C3: _shortcut inserts the 1x1 projection exactly when the input shape and
\* the residual shape differ, and uses the input unchanged when they are equal.
C3_ProjectionIffShapesDiffer ==
    pc = "shortcut_done" => (sc.projection <=> sc_input # sc_residual)

\* C4: a model returned by a named constructor has as many main-path weighted
\* layers as the number in the constructor's name.
C4_DepthMatchesName ==
    (args.entry \in NamedEntries /\ model) =>
        /\ WeightedLayers = NameDepth(args.entry)
        /\ args.block_fn = (IF NameDepth(args.entry) <= 34
                            THEN "basic_block" ELSE "bottleneck")

C4_Witness ==
    /\ pc = "done"
    /\ args.entry = "build_resnet_101"
    /\ WeightedLayers = 101
    /\ Len(blocks) = 33

\* C5: a named variant on a 224 x 224 input yields 112x112x64 after the stem
\* convolution, 56x56x64 after max pooling and the published stage outputs.
C5_PublishedShapes ==
    (/\ args.entry \in NamedEntries
     /\ Len(args.input_shape) = 3
     /\ Rows(args.input_shape) = 224
     /\ Cols(args.input_shape) = 224) =>
        /\ conv1 # NoTensor =>
              /\ conv1 = TensorShape(112, 112, 64)
              /\ pool1 = TensorShape(56, 56, 64)
        /\ \A s \in 1..Len(stageOut) :
              /\ s <= 4
              /\ stageOut[s] = TensorShape(PublishedSize[s], PublishedSize[s],
                                           PublishedChannels(args.block_fn)[s])
        /\ pc # "raised"
        /\ pc = "done" => Len(stageOut) = 4

C5_Witness ==
    /\ pc = "done"
    /\ args.entry = "build_resnet_50"
    /\ Rows(args.input_shape) = 224 /\ Cols(args.input_shape) = 224
    /\ conv1 = TensorShape(112, 112, 64)
    /\ stageOut[4] = TensorShape(7, 7, 2048)

\* C6: in mode "categorical" the head has num_outputs units with softmax; in
\* mode "binary" it has 1 unit with sigmoid whatever num_outputs is, which is
\* the head of the model build_resnet_34_binary returns.
C6_HeadByMode ==
    /\ dense # None =>
          /\ args.mode = "categorical" =>
                dense = [units |-> args.num_outputs, activation |-> "softmax"]
          /\ args.mode = "binary" =>
                dense = [units |-> 1, activation |-> "sigmoid"]
    /\ model => dense # None
    /\ (args.entry = "build_resnet_34_binary" /\ pc = "done") =>
          dense = [units |-> 1, activation |-> "sigmoid"]

C6_Witness ==
    /\ pc = "done"
    /\ args.mode = "binary"
    /\ args.num_outputs = 2
    /\ dense = [units |-> 1, activation |-> "sigmoid"]

\* C7: with len(input_shape) # 3 or a mode other than "categorical"/"binary"
\* build ends in an exception and creates no model; the input shape check
\* fails before any layer exists, the mode check fails after the whole
\* convolutional graph and the classifier pooling exist and before Model().
C7_RejectedCalls ==
    Started =>
      /\ Len(args.input_shape) # 3 =>
            /\ pc \in {"check", "raised"}
            /\ pc = "raised" => exc = "input_shape"
      /\ args.mode \notin {"categorical", "binary"} =>
            /\ ~model
            /\ pc \notin {"model", "plot", "done"}
            /\ (pc = "raised" /\ Len(args.input_shape) = 3) => exc \in {"mode", "merge"}
      /\ exc = "input_shape" =>
            /\ Len(args.input_shape) # 3
            /\ conv1 = NoTensor /\ pool1 = NoTensor /\ blocks = <<>>
            /\ nconv = 0 /\ nproj = 0 /\ dense = None /\ ~model
      /\ exc = "mode" =>
            /\ args.mode \notin {"categorical", "binary"}
            /\ conv1 # NoTensor /\ pool1 # NoTensor
            /\ Len(stageOut) = Len(args.repetitions)
            /\ \A s \in 0..(Len(args.repetitions) - 1) :
                  Applied(s) = args.repetitions[s + 1]
            /\ pool2 # NoTensor
            /\ dense = None /\ ~model
      /\ model => (Len(args.input_shape) = 3 /\ args.mode \in {"categorical", "binary"})

C7_Witness ==
    /\ pc = "raised"
    /\ exc = "mode"
    /\ args.mode = "regression"
    /\ Len(blocks) = 4
    /\ ~model

\* C8: at every shortcut merge of build the input's rows and cols are exact
\* multiples of the residual's and the shortcut tensor has the residual's
\* shape, so the sum is defined.
C8_MergeShapesMatch ==
    (Started /\ sc_input # NoTensor) =>
        /\ Rows(sc_input) % Rows(sc_residual) = 0
        /\ Cols(sc_input) % Cols(sc_residual) = 0
        /\ sc.shortcut = sc_residual
        /\ sc.exc = "none"

=============================================================================
